---- MODULE Spec2Model ----
(***************************************************************************)
(* Grow-Branches: WordTree (recursive growth of a word into a tree of      *)
(* glyphs), Tree (distribution of child trees into left, center and        *)
(* right) and KerningInfo (left and right edges of a rasterized tree).     *)
(*                                                                          *)
(* Vertical coordinates follow the canvas: y grows downwards, so a glyph   *)
(* is "lower" when its bottom edge has the greater y.  The geometry engine *)
(* (bounding boxes, path intersections) and the font are outside the       *)
(* sources; what they return to WordTree is an input of every step.        *)
(***************************************************************************)
EXTENDS Integers, Sequences, FiniteSets

VARIABLES wt, tree, ki

vars == <<wt, tree, ki>>

(***************************************************************************)
(* Bounds of the model.                                                     *)
(***************************************************************************)
MaxWordLen == 3
MaxGlyphs == 3

(***************************************************************************)
(* Font: the glyph definitions a WordTree is constructed with.  The value  *)
(* of a definition is the number of branches of its glyph.  "x" is a       *)
(* character without a glyph definition.                                    *)
(***************************************************************************)
Chars == {"a", "b", "c", "x"}

glyphDefinitions == [a |-> 1, b |-> 2, c |-> 0]

HasDefinition(char) == char \in DOMAIN glyphDefinitions

NumBranches(char) == IF HasDefinition(char) THEN glyphDefinitions[char] ELSE 0

branchBottomDistance == 30

\* The trunk of a freshly instanced root glyph after alignVertical: its
\* first point (the glyph's origin) at y = 0, its end above it.
InstanceTrunk == <<0, -20>>

\* Bottom edges (item.bounds.bottomLeft.y) the geometry engine may report
\* for a glyph aligned at a branch.
BottomYs == {-50, -20, 10}

\* The bottom edge of the glyphs that the engine reports intersections for:
\* the highest one.
HighY == CHOOSE y \in BottomYs : \A z \in BottomYs : y <= z

(***************************************************************************)
(* Intersections between one branch of a candidate and one branch of a     *)
(* placed glyph, as getIntersections returns them before the filter: each  *)
(* point lies at the candidate's trunk origin or elsewhere, and is a       *)
(* crossing or a touch.                                                     *)
(***************************************************************************)
OriginTouch == [atOrigin |-> TRUE, crossing |-> FALSE]
OriginCross == [atOrigin |-> TRUE, crossing |-> TRUE]
Touch == [atOrigin |-> FALSE, crossing |-> FALSE]
Cross == [atOrigin |-> FALSE, crossing |-> TRUE]

IntersectionCases ==
    { <<OriginTouch>>, <<OriginCross>>, <<Touch>>, <<Cross>>,
      <<OriginTouch, Touch>>, <<Touch, Touch>> }

NoHit == [with |-> 0, a |-> 0, b |-> 0, pts |-> <<>>]

Null == [idx |-> 0, bottom |-> 0]


(***************************************************************************)
(* Pure helpers.                                                            *)
(***************************************************************************)
Abs(n) == IF n < 0 THEN -n ELSE n

RECURSIVE PathLength(_)
PathLength(points) ==
    IF Len(points) < 2 THEN 0
    ELSE Abs(points[2] - points[1]) + PathLength(Tail(points))

Last(seq) == seq[Len(seq)]

Front(seq) == SubSeq(seq, 1, Len(seq) - 1)

\* Number of glyphs at depth k (the root is depth 1) when every branch of
\* every glyph receives a glyph.
RECURSIVE LevelCount(_, _)
LevelCount(string, k) ==
    IF k = 1 THEN 1
    ELSE LevelCount(string, k - 1) * NumBranches(string[k - 1])

RECURSIVE FullCountUpTo(_, _)
FullCountUpTo(string, k) ==
    IF k = 0 THEN 0
    ELSE FullCountUpTo(string, k - 1) + LevelCount(string, k)

FullCount(string) == FullCountUpTo(string, Len(string))

Words ==
    { w \in UNION { [1..n -> Chars] : n \in 1..MaxWordLen } :
        FullCount(w) <= MaxGlyphs }

GrowingOrders == {"natural", "reverse"}

(***************************************************************************)
(* Glyph.sortBranches: the branches of a glyph in growing order, as        *)
(* indices into its branch list.                                            *)
(***************************************************************************)
SortBranches(char, growingOrder) ==
    LET n == NumBranches(char)
    IN  [k \in 1..n |-> IF growingOrder = "natural" THEN k ELSE n + 1 - k]

(***************************************************************************)
(* WordTree                                                                 *)
(***************************************************************************)
\* new WordTree(options): no glyphs, no lowest glyph.  pc, string, stack,
\* thrown are the position of a grow call; rejected, last, chopped and
\* trace record what has happened to the instance.
Fresh(growingOrder) ==
    [ glyphs       |-> <<>>,
      lowestGlyph  |-> Null,
      growingOrder |-> growingOrder,
      pc           |-> "idle",
      string       |-> <<>>,
      stack        |-> <<>>,
      thrown       |-> FALSE,
      rejected     |-> FALSE,
      last         |-> "new",
      chopped      |-> FALSE,
      trace        |-> <<>> ]

\* _createGlyph for a character with a definition: definition.instance(),
\* placed by alignVertical (the root) or alignAtBranch (geometry = what the
\* engine reports for the placed glyph).
CreateGlyph(char, parent, branch, depth, bottom, trunk, hit) ==
    [ char   |-> char,
      parent |-> parent,
      branch |-> branch,
      depth  |-> depth,
      bottom |-> bottom,
      trunk  |-> trunk,
      hit    |-> hit ]

AddGlyph(t, glyph) == [t EXCEPT !.glyphs = Append(@, glyph)]

\* glyph.position.y of the first glyph: the first point of its trunk.
FirstGlyphPositionY(t) == Head(t.glyphs[1].trunk)

AdjustTrunkMoveUp(t) ==
    IF t.lowestGlyph = Null THEN t
    ELSE LET distance == t.lowestGlyph.bottom - FirstGlyphPositionY(t)
             trunk == t.glyphs[1].trunk
         IN  IF distance > branchBottomDistance * (-1)
             THEN [t EXCEPT !.glyphs[1].trunk =
                      <<Head(trunk) - (distance + branchBottomDistance)>> \o Tail(trunk)]
             ELSE t

AdjustTrunk(t) ==
    IF t.lowestGlyph = Null THEN t
    ELSE LET distance == t.lowestGlyph.bottom - FirstGlyphPositionY(t)
             trunk == t.glyphs[1].trunk
         IN  IF distance > branchBottomDistance * (-1)
             THEN [t EXCEPT !.glyphs[1].trunk =
                      <<Head(trunk) + distance + branchBottomDistance>> \o trunk]
             ELSE t

\* branchA.getIntersections(branchB) of the candidate against the placed
\* glyph i, unfiltered.
RawIntersections(glyph, i, a, b) ==
    IF glyph.hit.with = i /\ glyph.hit.a = a /\ glyph.hit.b = b
    THEN glyph.hit.pts ELSE <<>>

NotAtOrigin(inter) == ~inter.atOrigin

\* ... with the filter that drops the candidate's trunk starting point.
GetIntersections(glyph, i, a, b) ==
    SelectSeq(RawIntersections(glyph, i, a, b), NotAtOrigin)

CrossesGlyphCrossingOnly(t, glyph) ==
    \E i \in 1..Len(t.glyphs) :
      \E a \in 1..NumBranches(glyph.char) :
        \E b \in 1..NumBranches(t.glyphs[i].char) :
          LET intersections == GetIntersections(glyph, i, a, b)
          IN  /\ Len(intersections) > 0
              /\ intersections[1].crossing

CrossesGlyph(t, glyph) ==
    \E i \in 1..Len(t.glyphs) :
      \E a \in 1..NumBranches(glyph.char) :
        \E b \in 1..NumBranches(t.glyphs[i].char) :
          LET intersections == GetIntersections(glyph, i, a, b)
          IN  /\ Len(intersections) > 0
              /\ (Len(intersections) > 1 \/ intersections[1].crossing)

\* Glyph.isLowerThan
IsLowerThan(glyph, other) == glyph.bottom > other.bottom

Frame(t, prevGlyph, string) ==
    [ prevGlyph |-> prevGlyph,
      string    |-> string,
      branches  |-> IF string = <<>> THEN <<>>
                    ELSE SortBranches(t.glyphs[prevGlyph].char, t.growingOrder),
      i         |-> 1 ]

Top(t) == Last(t.stack)

\* The for loop of the top _growRecursive call has a branch left.
HasBranch(t) ==
    /\ t.pc = "growing"
    /\ t.stack # <<>>
    /\ Top(t).i <= Len(Top(t).branches)

NextBranch(t) == [t EXCEPT !.stack[Len(t.stack)].i = @ + 1]

\* grow(string) up to the first _growRecursive call.
GrowBegin(t, string) ==
    LET t0 == [t EXCEPT !.string = string, !.trace = <<>>,
                        !.thrown = FALSE, !.rejected = FALSE]
    IN  IF ~HasDefinition(string[1])
        THEN [t0 EXCEPT !.thrown = TRUE, !.last = "throw"]
        ELSE LET glyph == CreateGlyph(string[1], 0, 0, 1, 0, InstanceTrunk, NoHit)
                 t1 == AddGlyph(t0, glyph)
             IN  [t1 EXCEPT !.pc = "growing", !.last = "begin",
                            !.stack = <<Frame(t1, 1, Tail(string))>>]

GrowThrowSwallowed(t) ==
    [t EXCEPT !.stack = Front(@), !.last = "return"]

\* _createGlyph throws inside _growRecursive: the error leaves every
\* enclosing call, grow included.
GrowThrow(t) ==
    [t EXCEPT !.pc = "idle", !.stack = <<>>, !.thrown = TRUE, !.last = "throw"]

RejectBranch(t) ==
    [NextBranch(t) EXCEPT !.rejected = TRUE, !.last = "rejected",
                          !.trace = Append(@, [rejected |-> TRUE, bottom |-> 0, hit |-> NoHit])]

AcceptBranchThenBreak(t, glyph) ==
    LET idx == Len(t.glyphs) + 1
        lowestGlyph == t.lowestGlyph
        t1 == [t EXCEPT !.lowestGlyph =
                  IF lowestGlyph = Null \/ IsLowerThan(glyph, lowestGlyph)
                  THEN [idx |-> idx, bottom |-> glyph.bottom]
                  ELSE lowestGlyph]
        t2 == [AddGlyph(t1, glyph) EXCEPT
                  !.stack[Len(t.stack)].i = Len(Top(t).branches) + 1]
    IN  [t2 EXCEPT !.stack = Append(@, Frame(t2, idx, Tail(Top(t).string))),
                   !.last = "accepted",
                   !.trace = Append(@, [rejected |-> FALSE, bottom |-> glyph.bottom,
                                        hit |-> glyph.hit])]

AcceptBranchAsLowest(t, glyph) ==
    LET idx == Len(t.glyphs) + 1
        t1 == [t EXCEPT !.lowestGlyph = [idx |-> idx, bottom |-> glyph.bottom]]
        t2 == NextBranch(AddGlyph(t1, glyph))
    IN  [t2 EXCEPT !.stack = Append(@, Frame(t2, idx, Tail(Top(t).string))),
                   !.last = "accepted",
                   !.trace = Append(@, [rejected |-> FALSE, bottom |-> glyph.bottom,
                                        hit |-> glyph.hit])]

AcceptBranch(t, glyph) ==
    LET idx == Len(t.glyphs) + 1
        lowestGlyph == t.lowestGlyph
        t1 == [t EXCEPT !.lowestGlyph =
                  IF lowestGlyph = Null \/ IsLowerThan(glyph, lowestGlyph)
                  THEN [idx |-> idx, bottom |-> glyph.bottom]
                  ELSE lowestGlyph]
        t2 == NextBranch(AddGlyph(t1, glyph))
    IN  [t2 EXCEPT !.stack = Append(@, Frame(t2, idx, Tail(Top(t).string))),
                   !.last = "accepted",
                   !.trace = Append(@, [rejected |-> FALSE, bottom |-> glyph.bottom,
                                        hit |-> glyph.hit])]

Candidate(t, bottom, hit) ==
    LET f == Top(t)
    IN  CreateGlyph(f.string[1], f.prevGlyph, f.branches[f.i],
                    t.glyphs[f.prevGlyph].depth + 1, bottom, <<>>, hit)

GrowBranchLowestFirst(t, bottom, hit) ==
    LET glyph == Candidate(t, bottom, hit)
        t1 == AdjustTrunk(t)
        lowestGlyph == t1.lowestGlyph
        t2 == [t1 EXCEPT !.lowestGlyph =
                  IF lowestGlyph = Null \/ IsLowerThan(glyph, lowestGlyph)
                  THEN [idx |-> Len(t.glyphs) + 1, bottom |-> glyph.bottom]
                  ELSE lowestGlyph]
    IN  IF CrossesGlyph(t2, glyph) THEN RejectBranch(t2)
        ELSE AcceptBranch(t2, glyph)

\* One iteration of the loop over the branches of the previous glyph.
GrowBranch(t, bottom, hit) ==
    LET glyph == Candidate(t, bottom, hit)
        t1 == AdjustTrunk(t)
    IN  IF CrossesGlyph(t1, glyph) THEN RejectBranch(t1)
        ELSE AcceptBranch(t1, glyph)

\* The loop of the top _growRecursive call is over (or never began).
GrowReturn(t) == [t EXCEPT !.stack = Front(@), !.last = "return"]

GrowEndNoAdjust(t) == [t EXCEPT !.pc = "idle", !.last = "end"]

\* grow(string) after the first _growRecursive call has returned (the pivot
\* of the tree's item, set last, is not part of the state).
GrowEnd(t) ==
    LET t1 == AdjustTrunk(t)
    IN  [t1 EXCEPT !.pc = "idle", !.last = "end"]

ChopKeepLowest(t) ==
    [t EXCEPT !.glyphs = <<>>, !.last = "chop", !.chopped = TRUE]

\* chop()
Chop(t) ==
    [t EXCEPT !.glyphs = <<>>, !.lowestGlyph = Null,
              !.last = "chop", !.chopped = TRUE]

\* What the geometry engine may report for the candidate of the next
\* iteration: a bottom edge, and the branch pair (if any) with
\* intersections.  A point at the candidate's trunk origin lies on the
\* branch it was aligned at.
Hits(t) ==
    LET f == Top(t)
    IN  {NoHit} \cup
        { [with |-> i, a |-> a, b |-> b, pts |-> p] :
            i \in 1..Len(t.glyphs), a \in 1..NumBranches(f.string[1]),
            b \in 1..2, p \in IntersectionCases }

ValidHit(t, h) ==
    IF h = NoHit THEN TRUE
    ELSE /\ h.b <= NumBranches(t.glyphs[h.with].char)
         /\ (\E k \in 1..Len(h.pts) : h.pts[k].atOrigin)
               => (h.with = Top(t).prevGlyph /\ h.b = Top(t).branches[Top(t).i])

(***************************************************************************)
(* Actions of a WordTree.                                                   *)
(***************************************************************************)
\* grow is called on a WordTree without glyphs (a new one, as Tree.grow
\* does for every word, or a chopped one).
Grow ==
    /\ wt.pc = "idle"
    /\ wt.glyphs = <<>>
    /\ \E string \in Words : wt' = GrowBegin(wt, string)
    /\ UNCHANGED <<tree, ki>>

GrowRecursiveBranch ==
    /\ HasBranch(wt)
    /\ HasDefinition(Top(wt).string[1])
    /\ \E bottom \in BottomYs : \E hit \in Hits(wt) :
          /\ ValidHit(wt, hit)
          /\ hit = NoHit \/ bottom = HighY
          /\ wt' = GrowBranch(wt, bottom, hit)
    /\ UNCHANGED <<tree, ki>>

GrowRecursiveThrow ==
    /\ HasBranch(wt)
    /\ ~HasDefinition(Top(wt).string[1])
    /\ wt' = GrowThrow(wt)
    /\ UNCHANGED <<tree, ki>>

GrowRecursiveReturn ==
    /\ wt.pc = "growing"
    /\ wt.stack # <<>>
    /\ ~HasBranch(wt)
    /\ wt' = GrowReturn(wt)
    /\ UNCHANGED <<tree, ki>>

GrowFinish ==
    /\ wt.pc = "growing"
    /\ wt.stack = <<>>
    /\ wt' = GrowEnd(wt)
    /\ UNCHANGED <<tree, ki>>

ChopAll ==
    /\ wt.pc = "idle"
    /\ wt.last \in {"end", "throw"}
    /\ wt' = Chop(wt)
    /\ UNCHANGED <<tree, ki>>

(***************************************************************************)
(* Tree                                                                     *)
(*                                                                          *)
(* Horizontal coordinates are doubled, so that the center of a bounding    *)
(* box is an integer.  A child is its item's bounding box (left, right)    *)
(* and its position x, the pivot of its item.                               *)
(***************************************************************************)
MaxChildren == 5

Widths == {2, 6}

Versions == {"js", "ts"}

NewTree(version) ==
    [ version |-> version,
      trees   |-> <<>>,
      pc      |-> "idle",
      content |-> 0,
      groups  |-> [left |-> <<>>, center |-> 0, right |-> <<>>, error |-> FALSE],
      last    |-> "new" ]

\* kerner.kern(tree.item, this.item): the child is moved to the right of
\* the children added before it, touching them.
Kern(trees, width) ==
    LET left == IF trees = <<>> THEN 0 ELSE Last(trees).right
    IN  [left |-> left, right |-> left + 2 * width]

\* _addTree
AddTree(tr, width, pivot) ==
    LET bounds == Kern(tr.trees, width)
        child == [left |-> bounds.left, right |-> bounds.right,
                  x |-> bounds.left + pivot * width]
    IN  [tr EXCEPT !.trees = Append(@, child), !.content = @ - 1]

RECURSIVE MinLeft(_)
MinLeft(trees) ==
    IF Len(trees) = 1 THEN trees[1].left
    ELSE LET m == MinLeft(Tail(trees))
         IN  IF trees[1].left < m THEN trees[1].left ELSE m

RECURSIVE MaxRight(_)
MaxRight(trees) ==
    IF Len(trees) = 1 THEN trees[1].right
    ELSE LET m == MaxRight(Tail(trees))
         IN  IF trees[1].right > m THEN trees[1].right ELSE m

\* item.bounds.center.x, doubled: the item's bounds are those of its
\* children.
Threshold2(trees) == MinLeft(trees) + MaxRight(trees)

Indices(trees) == [k \in 1..Len(trees) |-> k]

Groups(left, center, right) ==
    [left |-> left, center |-> center, right |-> right, error |-> FALSE]

\* Reading a property of undefined: _distributeTrees ends with a TypeError.
TypeError(left, right) ==
    [left |-> left, center |-> 0, right |-> right, error |-> TRUE]

\* left.pop() / right.shift(); the center of an empty side is undefined (0).
PopLeft(left, right) ==
    IF left = <<>> THEN Groups(left, 0, right)
    ELSE Groups(Front(left), Last(left), right)

ShiftRight(left, right) ==
    IF right = <<>> THEN Groups(left, 0, right)
    ELSE Groups(left, Head(right), Tail(right))

\* Tree._distributeTrees, JavaScript version.
DistributeTreesJS(trees) ==
    IF Len(trees) = 1 THEN Groups(<<>>, 1, <<>>)
    ELSE IF Len(trees) = 2 THEN Groups(<<1>>, 2, <<>>)
    ELSE IF Len(trees) = 3 THEN Groups(<<1>>, 2, <<3>>)
    ELSE LET threshold2 == Threshold2(trees)
             IsLeft(k) == 2 * trees[k].x < threshold2
             IsRight(k) == ~IsLeft(k)
             left == SelectSeq(Indices(trees), IsLeft)
             right == SelectSeq(Indices(trees), IsRight)
             Width(k) == trees[k].right - trees[k].left
         IN  IF Len(right) = 1 THEN PopLeft(left, right)
             ELSE IF left = <<>> \/ right = <<>> THEN TypeError(left, right)
             ELSE IF Width(Last(left)) < Width(Head(right))
                  THEN PopLeft(left, right)
                  ELSE ShiftRight(left, right)

DistributeTreesTSNoThree(trees) ==
    IF Len(trees) = 1 THEN Groups(<<>>, 1, <<>>)
    ELSE IF Len(trees) = 2 THEN Groups(<<1>>, 2, <<>>)
    ELSE LET threshold2 == Threshold2(trees)
             IsLeft(k) == trees[k].left + trees[k].right < threshold2
             IsRight(k) == ~IsLeft(k)
             left == SelectSeq(Indices(trees), IsLeft)
             right == SelectSeq(Indices(trees), IsRight)
         IN  IF Len(left) > 1 /\ Len(right) > 1
             THEN IF trees[left[Len(left) - 1]].right - trees[left[1]].left >
                     trees[Last(right)].right - trees[right[2]].left
                  THEN PopLeft(left, right)
                  ELSE ShiftRight(left, right)
             ELSE IF left = <<>> THEN TypeError(left, right)
             ELSE IF 2 * trees[Last(left)].right > threshold2
                  THEN PopLeft(left, right)
                  ELSE ShiftRight(left, right)

\* Tree._distributeTrees, TypeScript version.
DistributeTreesTS(trees) ==
    IF Len(trees) = 1 THEN Groups(<<>>, 1, <<>>)
    ELSE IF Len(trees) = 2 THEN Groups(<<1>>, 2, <<>>)
    ELSE IF Len(trees) = 3 THEN Groups(<<1>>, 2, <<3>>)
    ELSE LET threshold2 == Threshold2(trees)
             IsLeft(k) == trees[k].left + trees[k].right < threshold2
             IsRight(k) == ~IsLeft(k)
             left == SelectSeq(Indices(trees), IsLeft)
             right == SelectSeq(Indices(trees), IsRight)
         IN  IF Len(left) > 1 /\ Len(right) > 1
             THEN IF trees[left[Len(left) - 1]].right - trees[left[1]].left >
                     trees[Last(right)].right - trees[right[2]].left
                  THEN PopLeft(left, right)
                  ELSE ShiftRight(left, right)
             ELSE IF left = <<>> THEN TypeError(left, right)
             ELSE IF 2 * trees[Last(left)].right > threshold2
                  THEN PopLeft(left, right)
                  ELSE ShiftRight(left, right)

DistributeTrees(tr) ==
    IF tr.version = "js" THEN DistributeTreesJS(tr.trees)
    ELSE DistributeTreesTS(tr.trees)

\* _alignTrees: the groups become the children of sideLeft and sideRight
\* and the center tree; reading center.item of an undefined center is a
\* TypeError as well.
AlignTrees(tr) ==
    LET groups == DistributeTrees(tr)
    IN  [tr EXCEPT !.groups = [groups EXCEPT !.error = @ \/ groups.center = 0],
                   !.pc = "idle",
                   !.last = IF groups.error \/ groups.center = 0
                            THEN "failed" ELSE "aligned"]

\* Tree.chop (JavaScript version)
TreeChop(tr) ==
    [tr EXCEPT !.trees = <<>>, !.last = "chop",
               !.groups = [left |-> <<>>, center |-> 0, right |-> <<>>, error |-> FALSE]]

(***************************************************************************)
(* Actions of a Tree: grow(content) is the loop over the elements of the   *)
(* content, then _alignTrees.                                               *)
(***************************************************************************)
TreeGrow ==
    /\ tree.pc = "idle"
    /\ tree.trees = <<>>
    /\ \E n \in 1..MaxChildren :
          tree' = [tree EXCEPT !.pc = "growing", !.content = n, !.last = "grow"]
    /\ UNCHANGED <<wt, ki>>

TreeGrowElement ==
    /\ tree.pc = "growing"
    /\ tree.content > 0
    /\ \E width \in Widths : \E pivot \in 0..2 :
          tree' = AddTree(tree, width, pivot)
    /\ UNCHANGED <<wt, ki>>

TreeGrowAlign ==
    /\ tree.pc = "growing"
    /\ tree.content = 0
    /\ tree' = AlignTrees(tree)
    /\ UNCHANGED <<wt, ki>>

TreeChopAll ==
    /\ tree.pc = "idle"
    /\ tree.version = "js"
    /\ tree.trees # <<>>
    /\ tree' = TreeChop(tree)
    /\ UNCHANGED <<wt, ki>>

(***************************************************************************)
(* KerningInfo                                                              *)
(*                                                                          *)
(* A raster is its width, its height and its pixels, pixels[y][x] for the  *)
(* row y and the column x, both counted from 0.  The tree a KerningInfo is *)
(* constructed with is represented by the raster that rasterizing its item *)
(* returns.  A field that is null holds no value: the empty set; a field   *)
(* that is set holds one.                                                   *)
(***************************************************************************)
MaxWidth == 3
MaxHeight == 2

\* A pixel of a rasterized tree is transparent or has ink; the debugging
\* marks of _getEdge are opaque red and blue pixels.
Pixels == {"clear", "ink", "red", "blue"}

RasterizedPixels == {"clear", "ink"}

\* pixel.alpha
Alpha(pixel) == IF pixel = "clear" THEN 0 ELSE 1

\* tree.item.rasterize(kerningResolution): the rasters a tree may give.
Rasters ==
    UNION { { [ width  |-> w,
                height |-> h,
                pixels |-> p ] :
              p \in [0..(h - 1) -> [0..(w - 1) -> RasterizedPixels]] } :
            w \in 0..MaxWidth, h \in 0..MaxHeight }

GetPixel(raster, x, y) == raster.pixels[y][x]

SetPixel(raster, x, y, color) == [raster EXCEPT !.pixels[y][x] = color]

NoValue == {}

Some(value) == {value}

The(field) == CHOOSE value \in field : TRUE

\* new KerningInfo(tree)
NewKerningInfo(item) ==
    [ tree   |-> item,
      raster |-> NoValue,
      edges  |-> [left |-> NoValue, right |-> NoValue],
      width  |-> NoValue,
      height |-> NoValue,
      debug  |-> TRUE ]

\* const edge = []: an array without elements.
EmptyEdge == [y \in {} |-> 0]

\* edge[y] = value
Put(edge, y, value) ==
    [k \in (DOMAIN edge) \cup {y} |-> IF k = y THEN value ELSE edge[k]]

\* The column the inner loop of _getEdge looks at in its step i.
Column(sideLeft, i, width) == IF sideLeft THEN i ELSE width - 1 - i

EdgeValueColumn(sideLeft, x, width) == x

\* The value _getEdge records for a row whose first lit pixel, seen from the
\* side, is in column x.
EdgeValue(sideLeft, x, width) == IF sideLeft THEN x ELSE width - 1 - x

DebugColor(sideLeft) == IF sideLeft THEN "red" ELSE "blue"

\* The inner loop of _getEdge from its step i on, for the row y: scan holds
\* the edge built so far and the raster.  The loop ends at the first pixel
\* with alpha, or with the row.
RECURSIVE ScanRow(_, _, _, _, _)
ScanRow(scan, side, y, i, debug) ==
    LET width == scan.raster.width
        sideLeft == side = "left"
    IN  IF i >= width THEN scan
        ELSE LET x == Column(sideLeft, i, width)
                 pixel == GetPixel(scan.raster, x, y)
             IN  IF Alpha(pixel) # 0
                 THEN [ edge   |-> Put(scan.edge, y, EdgeValue(sideLeft, x, width)),
                        raster |-> IF debug
                                   THEN SetPixel(scan.raster, x, y, DebugColor(sideLeft))
                                   ELSE scan.raster ]
                 ELSE ScanRow(scan, side, y, i + 1, debug)

\* The outer loop of _getEdge from the row y on.
RECURSIVE ScanRows(_, _, _, _)
ScanRows(scan, side, y, debug) ==
    IF y >= scan.raster.height THEN scan
    ELSE ScanRows(ScanRow(scan, side, y, 0, debug), side, y + 1, debug)

\* _getEdge(raster, side): the edge it returns and the raster it leaves.
GetEdge(raster, side, debug) ==
    ScanRows([edge |-> EmptyEdge, raster |-> raster], side, 0, debug)

\* _getEdges(raster): the left edge first, the right edge on the raster the
\* first scan has left.
GetEdges(raster, debug) ==
    LET left == GetEdge(raster, "left", debug)
        right == GetEdge(left.raster, "right", debug)
    IN  [ edges  |-> [left |-> Some(left.edge), right |-> Some(right.edge)],
          raster |-> right.raster ]

\* update(): the former raster is removed and the tree is rasterized anew;
\* k.tree is the raster that tree.item.rasterize returns.
Update(k) ==
    LET raster == k.tree
        result == GetEdges(raster, k.debug)
    IN  [k EXCEPT !.raster = Some(result.raster),
                  !.edges  = result.edges,
                  !.width  = Some(raster.width),
                  !.height = Some(raster.height)]

KerningUpdate ==
    /\ ki' = Update(ki)
    /\ UNCHANGED <<wt, tree>>

InitKerning ==
    /\ \E item \in Rasters : ki = NewKerningInfo(item)
    /\ wt = Fresh("natural")
    /\ tree = NewTree("ts")

NextKerning == KerningUpdate

SpecKerning == InitKerning /\ [][NextKerning]_vars

\* The KerningInfo of the specifications of WordTree and Tree: one of a
\* tree without extent, never updated.
IdleKerningInfo ==
    NewKerningInfo([width |-> 0, height |-> 0, pixels |-> [y \in {} |-> 0]])

InitTree ==
    /\ \E version \in Versions : tree = NewTree(version)
    /\ wt = Fresh("natural")
    /\ ki = IdleKerningInfo

NextTree ==
    \/ TreeGrow
    \/ TreeGrowElement
    \/ TreeGrowAlign
    \/ TreeChopAll

SpecTree == InitTree /\ [][NextTree]_vars

Init ==
    /\ \E growingOrder \in GrowingOrders : wt = Fresh(growingOrder)
    /\ tree = NewTree("ts")
    /\ ki = IdleKerningInfo

Next ==
    \/ Grow
    \/ GrowRecursiveBranch
    \/ GrowRecursiveThrow
    \/ GrowRecursiveReturn
    \/ GrowFinish
    \/ ChopAll

Spec == Init /\ [][Next]_vars

(***************************************************************************)
(* Properties of Tree._distributeTrees                                      *)
(***************************************************************************)
Aligned == tree.last \in {"aligned", "failed"}

Occurrences(seq, k) == Cardinality({ j \in 1..Len(seq) : seq[j] = k })

InExactlyOneGroup(groups, k) ==
    Occurrences(groups.left, k) + Occurrences(groups.right, k)
        + (IF groups.center = k THEN 1 ELSE 0) = 1

\* C4: with 4 or more children _distributeTrees completes, every child is
\* in exactly one of left, center and right, and center is one of the
\* children.
C4_FourOrMoreDistributed ==
    (Aligned /\ Len(tree.trees) >= 4) =>
        /\ ~tree.groups.error
        /\ tree.groups.center \in 1..Len(tree.trees)
        /\ \A k \in 1..Len(tree.trees) : InExactlyOneGroup(tree.groups, k)

\* C5: 1, 2 and 3 children are distributed by insertion order alone:
\* center only; left and center; left, center and right.
C5_UpToThreeByInsertionOrder ==
    Aligned =>
        /\ Len(tree.trees) = 1 => tree.groups = Groups(<<>>, 1, <<>>)
        /\ Len(tree.trees) = 2 => tree.groups = Groups(<<1>>, 2, <<>>)
        /\ Len(tree.trees) = 3 => tree.groups = Groups(<<1>>, 2, <<3>>)

\* Three children distributed, the first of them wide enough for the
\* second one to lie right of the center of the bounds.
C5_Witness ==
    /\ Aligned
    /\ Len(tree.trees) = 3
    /\ tree.trees[2].left + tree.trees[2].right >= Threshold2(tree.trees)
    /\ tree.groups.center = 2

(***************************************************************************)
(* Properties of WordTree                                                   *)
(***************************************************************************)
Returned == wt.last = "end"

Finished == wt.last \in {"end", "throw"}

AllDefined(string) == \A k \in 1..Len(string) : HasDefinition(string[k])

\* C1 as stated: without rejections grow leaves len(W) glyphs.
C1_OneGlyphPerChar ==
    (Returned /\ ~wt.rejected /\ AllDefined(wt.string)) =>
        Len(wt.glyphs) = Len(wt.string)

\* C1, amended: without rejections grow leaves one glyph for the root and
\* one for every branch of every glyph of the preceding character, that is
\* 1 + sum over k of the product of the branch counts of W[1..k].
C1_OneGlyphPerBranch ==
    (Returned /\ ~wt.rejected /\ AllDefined(wt.string)) =>
        Len(wt.glyphs) = FullCount(wt.string)

\* A word of two characters grown into three glyphs.
C1_Witness ==
    /\ Returned /\ ~wt.rejected /\ AllDefined(wt.string)
    /\ Len(wt.string) = 2
    /\ Len(wt.glyphs) = 3

\* C2 as stated: in the glyph list left by grow, two branch outlines of
\* different glyphs intersect at most once, and then without crossing.
C2_AtMostOneTouch ==
    Returned =>
        \A j \in 1..Len(wt.glyphs) : \A i \in 1..(j - 1) :
          \A a \in 1..NumBranches(wt.glyphs[j].char) :
            \A b \in 1..NumBranches(wt.glyphs[i].char) :
              LET pts == RawIntersections(wt.glyphs[j], i, a, b)
              IN  Len(pts) <= 1 /\ (Len(pts) = 1 => ~pts[1].crossing)

\* C2, amended: the same, not counting the intersections at the trunk
\* starting point of the glyph of the pair that was placed later.
C2_AtMostOneTouchOffOrigin ==
    Returned =>
        \A j \in 1..Len(wt.glyphs) : \A i \in 1..(j - 1) :
          \A a \in 1..NumBranches(wt.glyphs[j].char) :
            \A b \in 1..NumBranches(wt.glyphs[i].char) :
              LET pts == GetIntersections(wt.glyphs[j], i, a, b)
              IN  Len(pts) <= 1 /\ (Len(pts) = 1 => ~pts[1].crossing)

\* A placed glyph touches the branch it grows from at its trunk origin and
\* once more elsewhere.
C2_Witness ==
    /\ Returned
    /\ \E j \in 1..Len(wt.glyphs) : wt.glyphs[j].hit.pts = <<OriginTouch, Touch>>

\* grow has asked the font for a character without a definition: the first
\* one, or the one after a placed glyph that has a branch.
RequestedUndefined(t) ==
    \/ ~HasDefinition(t.string[1])
    \/ \E i \in 1..Len(t.glyphs) :
          /\ t.glyphs[i].depth < Len(t.string)
          /\ NumBranches(t.glyphs[i].char) > 0
          /\ ~HasDefinition(t.string[t.glyphs[i].depth + 1])

\* C3 as stated: a word with a character without a definition never makes
\* grow return normally.
C3_UndefinedAlwaysThrows ==
    (Finished /\ ~AllDefined(wt.string)) => wt.thrown

\* C3, amended: grow fails with the error exactly when it asks for the glyph
\* of a character without a definition; when no placed glyph with a branch
\* precedes that character, grow returns normally with the shorter tree.
C3_ThrowsIffRequested ==
    Finished => (wt.thrown <=> RequestedUndefined(wt))

\* The error is raised after glyphs have been placed.
C3_Witness ==
    /\ wt.last = "throw"
    /\ Len(wt.glyphs) >= 2

\* The same grow on a new instance: the calls of grow(string) replayed with
\* the answers the geometry engine gave.
RECURSIVE Run(_, _)
Run(t, trace) ==
    IF t.pc = "idle" THEN t
    ELSE IF t.stack = <<>> THEN Run(GrowEnd(t), trace)
    ELSE IF ~HasBranch(t) THEN Run(GrowReturn(t), trace)
    ELSE IF ~HasDefinition(Top(t).string[1]) THEN Run(GrowThrow(t), trace)
    ELSE IF Head(trace).rejected
         THEN Run(RejectBranch(AdjustTrunk(t)), Tail(trace))
         ELSE Run(GrowBranch(t, Head(trace).bottom, Head(trace).hit), Tail(trace))

FreshGrow(t) == Run(GrowBegin(Fresh(t.growingOrder), t.string), t.trace)

Structure(t) ==
    [glyphs |-> t.glyphs, lowestGlyph |-> t.lowestGlyph, thrown |-> t.thrown]

\* C6: grow after chop leaves the glyphs (characters, order, parent branch,
\* the root's trunk) and lowestGlyph of the same grow on a new instance.
C6_ChopThenGrowIsFresh ==
    (Finished /\ wt.chopped) => Structure(wt) = Structure(FreshGrow(wt))

\* A grow after a chop with a rejected candidate and an extended trunk.
C6_Witness ==
    /\ Returned /\ wt.chopped
    /\ Len(wt.glyphs) >= 2
    /\ wt.rejected
    /\ Len(wt.glyphs[1].trunk) > 2

TrunkLength(t) == PathLength(t.glyphs[1].trunk)

\* C7: during a grow call no step makes the root's trunk shorter.
C7_TrunkNeverShrinks ==
    [][wt.pc = "growing" => TrunkLength(wt') >= TrunkLength(wt)]_vars

\* The trunk has been extended twice by one grow.
C7_Witness ==
    /\ Returned
    /\ Len(wt.glyphs[1].trunk) >= 4

Placed(t) == [k \in 1..Len(t.glyphs) |-> [t.glyphs[k] EXCEPT !.trunk = <<>>]]

\* C9: a rejected candidate leaves the glyph list and lowestGlyph as they
\* were, raises nothing, grows nothing and moves the loop to the next branch
\* of the same glyph; during growth the list changes only by an acceptance.
C9_RejectionLeavesNoTrace ==
    [][wt.pc = "growing" =>
         /\ wt'.last = "rejected" =>
               /\ Placed(wt') = Placed(wt)
               /\ wt'.lowestGlyph = wt.lowestGlyph
               /\ ~wt'.thrown /\ wt'.pc = "growing"
               /\ Len(wt'.stack) = Len(wt.stack)
               /\ Front(wt'.stack) = Front(wt.stack)
               /\ Top(wt') = [Top(wt) EXCEPT !.i = @ + 1]
         /\ Placed(wt') # Placed(wt) =>
               /\ wt'.last = "accepted"
               /\ Len(wt'.glyphs) = Len(wt.glyphs) + 1
               /\ Front(Placed(wt')) = Placed(wt)]_vars

\* The first candidate was rejected and a branch of the same glyph is left.
C9_Witness ==
    /\ wt.last = "rejected"
    /\ HasBranch(wt)
    /\ Len(wt.glyphs) = 1

GlyphBottom(t, k) ==
    IF k = 1 THEN Head(t.glyphs[1].trunk) ELSE t.glyphs[k].bottom

RefersTo(t, k) ==
    /\ t.lowestGlyph.idx = k
    /\ k \in 1..Len(t.glyphs)
    /\ t.lowestGlyph.bottom = t.glyphs[k].bottom

\* C10 as stated: once a glyph is in the list lowestGlyph is a glyph of the
\* list and none of the list, the root included, is lower; after chop it is
\* no glyph.
C10_LowestOfAllGlyphs ==
    /\ wt.glyphs # <<>> =>
          /\ \E k \in 1..Len(wt.glyphs) : RefersTo(wt, k)
          /\ \A k \in 1..Len(wt.glyphs) : GlyphBottom(wt, k) <= wt.lowestGlyph.bottom
    /\ wt.last = "chop" => wt.lowestGlyph = Null

\* C10, amended: once a glyph besides the root is in the list lowestGlyph is
\* one of the glyphs placed at a branch and none of those is lower (the root
\* is not compared); with the root alone, and after chop, it is no glyph.
C10_LowestOfBranchGlyphs ==
    /\ Len(wt.glyphs) >= 2 =>
          /\ \E k \in 2..Len(wt.glyphs) : RefersTo(wt, k)
          /\ \A k \in 2..Len(wt.glyphs) : wt.glyphs[k].bottom <= wt.lowestGlyph.bottom
    /\ Len(wt.glyphs) <= 1 => wt.lowestGlyph = Null

\* Two glyphs besides the root, the first of them the lowest, after a chop.
C10_Witness ==
    /\ Len(wt.glyphs) = 3
    /\ wt.lowestGlyph.idx = 2
    /\ wt.glyphs[3].bottom < wt.glyphs[2].bottom
    /\ wt.chopped

(***************************************************************************)
(* Properties of KerningInfo._getEdge                                       *)
(***************************************************************************)
Updated == ki.raster # NoValue

Rows(raster) == 0..(raster.height - 1)

Lit(raster, x, y) == Alpha(GetPixel(raster, x, y)) # 0

LitColumns(raster, y) == { x \in 0..(raster.width - 1) : Lit(raster, x, y) }

LeftmostLit(raster, y) ==
    CHOOSE x \in LitColumns(raster, y) : \A z \in LitColumns(raster, y) : x <= z

RightmostLit(raster, y) ==
    CHOOSE x \in LitColumns(raster, y) : \A z \in LitColumns(raster, y) : x >= z

HasValue(edge, y) == y \in DOMAIN edge

\* C11 as stated: after update, for every row y of the raster: if the row
\* has a pixel with alpha, the left edge's value for y is the column of the
\* leftmost lit pixel and the right edge's value for y is the column of the
\* rightmost lit pixel; if it has none, neither edge has a value for y.
C11_EdgesAreLitColumns ==
    Updated =>
        LET left == The(ki.edges.left)
            right == The(ki.edges.right)
        IN  \A y \in Rows(ki.tree) :
              IF LitColumns(ki.tree, y) # {}
              THEN /\ HasValue(left, y)
                   /\ left[y] = LeftmostLit(ki.tree, y)
                   /\ HasValue(right, y)
                   /\ right[y] = RightmostLit(ki.tree, y)
              ELSE /\ ~HasValue(left, y)
                   /\ ~HasValue(right, y)

\* C11, amended: after update, for every row y of the raster: if the row
\* has a pixel with alpha, the left edge's value for y is the column of the
\* leftmost lit pixel and the right edge's value for y is the number of
\* columns to the right of the rightmost lit pixel, width - 1 - its column;
\* if it has none, neither edge has a value for y.  The edges have values
\* for rows of the raster only.
C11_EdgesAreDistancesFromTheSides ==
    Updated =>
        LET left == The(ki.edges.left)
            right == The(ki.edges.right)
        IN  /\ DOMAIN left \subseteq Rows(ki.tree)
            /\ DOMAIN right \subseteq Rows(ki.tree)
            /\ \A y \in Rows(ki.tree) :
                 IF LitColumns(ki.tree, y) # {}
                 THEN /\ HasValue(left, y)
                      /\ left[y] = LeftmostLit(ki.tree, y)
                      /\ HasValue(right, y)
                      /\ right[y] = ki.tree.width - 1 - RightmostLit(ki.tree, y)
                 ELSE /\ ~HasValue(left, y)
                      /\ ~HasValue(right, y)

\* An updated KerningInfo of a raster with a row without ink and a row
\* whose leftmost and rightmost lit pixels differ, the rightmost one in
\* another column than its distance from the right side.
C11_Witness ==
    /\ Updated
    /\ \E y \in Rows(ki.tree) : LitColumns(ki.tree, y) = {}
    /\ \E y \in Rows(ki.tree) :
         /\ LitColumns(ki.tree, y) # {}
         /\ LeftmostLit(ki.tree, y) # RightmostLit(ki.tree, y)
         /\ RightmostLit(ki.tree, y) # ki.tree.width - 1 - RightmostLit(ki.tree, y)
         /\ The(ki.edges.right)[y] = ki.tree.width - 1 - RightmostLit(ki.tree, y)

====
